---- MODULE Spec2Model ----
(***************************************************************************)
(* The streaming gateway of src/server.py: capability links (HMAC over     *)
(* file_id and expiry), the /stream and /download routes, the Range        *)
(* window of stream_logic, the StreamManager admission counter and the     *)
(* body generator gen() / file_generator() over the upstream chunk source. *)
(*                                                                         *)
(* Scheduling is asyncio's: one event loop, a task runs from one           *)
(* suspension point to the next without interleaving.  The suspension      *)
(* points of a request are: the server sending the response start, the     *)
(* await of the next upstream chunk (line 96) and the yield that hands a   *)
(* chunk to the server (lines 101, 104, 211).  asyncio.Lock.acquire() on a *)
(* free lock returns without suspending and the bodies of the two          *)
(* `async with lock` blocks (lines 79-82, 86-87) hold no await, so the     *)
(* lock is free at every suspension point and each block is one step.      *)
(***************************************************************************)
EXTENDS Integers, Sequences, FiniteSets, TLC

VARIABLES
    now,                   \* the wall clock read by time.time(), in ticks
    MULTI_TOKEN_ENABLED,   \* config.py:21, read once from the environment
    ALIGNMENT,             \* the upstream's offset granularity
    links,                 \* every link generate_secure_link has returned
    active_streams_count,  \* server.py:26
    req                    \* the HTTP requests, by id

vars == <<now, MULTI_TOKEN_ENABLED, ALIGNMENT, links, active_streams_count, req>>

(***************************** bounds **************************************)
NumReq == 2
MaxSize == 3
MaxBlock == 2
MaxAlign == 2
MaxHdrLen == 5
MaxLinks == 3
MaxEpochs == 2
MaxSubTicks == 1
TicksPerSecond == 2

(************************* program constants *******************************)
TOKEN_EXPIRY == 3600

DEFAULT_FILE_SIZE == 1024 * 1024 * 10

MAX_CONCURRENT_STREAMS == IF MULTI_TOKEN_ENABLED THEN 6 ELSE 1

(***************************** text ****************************************)
DigitChars == <<"0", "1", "2", "3", "4", "5", "6", "7", "8", "9">>

Digits == {DigitChars[i] : i \in 1..10}

DigitValue(c) == (CHOOSE i \in 1..10 : DigitChars[i] = c) - 1

\* f"{n}" for a non-negative int: its decimal digits, no leading zero.
RECURSIVE Str(_)
Str(n) == IF n < 10 THEN <<DigitChars[n + 1]>>
          ELSE Str(n \div 10) \o <<DigitChars[(n % 10) + 1]>>

\* int(s) succeeds on the characters modelled exactly when s is a non-empty
\* run of digits (leading zeros allowed).
IsNumeric(s) == Len(s) > 0 /\ \A i \in 1..Len(s) : s[i] \in Digits

RECURSIVE ParseInt(_)
ParseInt(s) == IF Len(s) = 0 THEN 0
               ELSE 10 * ParseInt(SubSeq(s, 1, Len(s) - 1)) + DigitValue(s[Len(s)])

\* str.split(sep) for a one-character separator: the list of parts.
RECURSIVE Split(_, _)
Split(s, sep) ==
    IF \A i \in 1..Len(s) : s[i] # sep THEN <<s>>
    ELSE LET i == CHOOSE k \in 1..Len(s) :
                      s[k] = sep /\ \A j \in 1..(k - 1) : s[j] # sep
         IN  <<SubSeq(s, 1, i - 1)>> \o Split(SubSeq(s, i + 1, Len(s)), sep)

\* Python's chunk[:k]: a negative k counts from the end.
PySliceTo(chunk, k) ==
    IF k >= 0 THEN SubSeq(chunk, 1, IF k < Len(chunk) THEN k ELSE Len(chunk))
    ELSE SubSeq(chunk, 1, Len(chunk) + k)

(************************** the token codec ********************************)
\* int(time.time())
Seconds(t) == t \div TicksPerSecond

\* hmac.new(SECRET_KEY, payload, sha256).hexdigest(), taken as injective on
\* the payload: the digest is represented by the payload it was computed on.
Hmac(payload) == payload

Payload(file_id, expiry) == file_id \o Str(expiry)

generate_secure_link(file_id, file_size, endpoint, t) ==
    LET expiry == Seconds(t) + TOKEN_EXPIRY
    IN  [endpoint |-> endpoint, file_id |-> file_id, size |-> file_size,
         token |-> Hmac(Payload(file_id, expiry)), exp |-> expiry]

\* Expired with the clock truncated to whole seconds before the comparison.
Expired_truncated(t, expiry) == Seconds(t) > expiry

Expired(t, expiry) == t > expiry * TicksPerSecond

verify_token(file_id, token, expiry, t) ==
    IF Expired(t, expiry) THEN FALSE
    ELSE Hmac(Payload(file_id, expiry)) = token

(***************************** the media ***********************************)
\* What Telegram holds: each message's media.file_id and media.file_size,
\* and the number of bytes the upstream really serves for it.  file_size 0
\* stands for a size Telegram does not report.  The identifiers are strings
\* some of which end in digits, as Telegram's base64 ids may.
Media == { [file_id |-> <<"a">>, file_size |-> MaxSize, length |-> MaxSize],
           [file_id |-> <<"a", "1">>, file_size |-> MaxSize - 1,
            length |-> MaxSize - 1],
           [file_id |-> <<"a", "1", "3">>, file_size |-> 0, length |-> 1] }

FileIds == {m.file_id : m \in Media}

\* The true length of the resource the upstream serves under file_id.
FileLen(file_id) == (CHOOSE m \in Media : m.file_id = file_id).length

(************************ the range resolver *******************************)
Min(a, b) == IF a < b THEN a ELSE b

\* f"{n}" for any int.
StrInt(n) == IF n < 0 THEN <<"-">> \o Str(0 - n) ELSE Str(n)

\* request.headers.get("range"): an absent header and an empty one are both
\* falsy at line 187 and are both the empty sequence here.
NoRange == <<>>

\* Lines 186-194: start and end as they stand when line 196 is reached.  The
\* two assignments of lines 192 and 193 run in order inside one try block, so
\* a failure of int(parts[1]) leaves the start assigned by line 192.
ResolveWindow(range_header, file_size) ==
    LET whole == [start |-> 0, end |-> file_size - 1]
    IN  IF range_header = NoRange THEN whole
        ELSE LET kv == Split(range_header, "=")
             IN  IF Len(kv) # 2 THEN whole
                 ELSE IF kv[1] # <<"bytes">> THEN whole
                 ELSE LET parts == Split(kv[2], "-")
                          hasEnd == Len(parts) > 1 /\ parts[2] # <<>>
                      IN  IF parts[1] # <<>> /\ ~IsNumeric(parts[1]) THEN whole
                          ELSE LET s == IF parts[1] # <<>> THEN ParseInt(parts[1])
                                        ELSE 0
                               IN  IF hasEnd /\ ~IsNumeric(parts[2])
                                   THEN [start |-> s, end |-> file_size - 1]
                                   ELSE [start |-> s,
                                         end |-> IF hasEnd THEN ParseInt(parts[2])
                                                 ELSE file_size - 1]

\* NotSatisfiable with > for >=: a window may start at the size itself.
NotSatisfiable_gt(start, file_size) == start > file_size

NotSatisfiable(start, file_size) == start >= file_size

ContentRangeUnsatisfied(file_size) == <<"bytes", " ", "*", "/">> \o StrInt(file_size)

\* ContentRange with the total taken from the window's end, not the size.
ContentRange_end_total(start, end, file_size) ==
    <<"bytes", " ">> \o StrInt(start) \o <<"-">> \o StrInt(end) \o <<"/">>
        \o StrInt(end + 1)

ContentRange(start, end, file_size) ==
    <<"bytes", " ">> \o StrInt(start) \o <<"-">> \o StrInt(end) \o <<"/">>
        \o StrInt(file_size)

(***************************** requests ************************************)
Requests == 1..NumReq

\* A request before it arrives.  status is the status of the response the
\* handler built, client_status the status line the client has been sent
\* (0: none yet); acquired, released, rejected, supplied, sent, outcome,
\* escaped and at record what happened and are read by no action's guard.
IdleReq ==
    [pc |-> "idle", file_id |-> <<>>, size |-> 0, token |-> <<>>, exp |-> 0,
     range |-> NoRange, at |-> 0, status |-> 0, client_status |-> 0,
     start |-> 0, end |-> 0, content_range |-> <<>>, content_length |-> <<>>,
     disposition |-> "", acquired |-> 0, released |-> 0, rejected |-> FALSE,
     offset |-> 0, bytes_served |-> 0, chunk_len |-> 0, brk |-> FALSE,
     pos |-> 0, supplied |-> 0, sent |-> <<>>, outcome |-> "",
     escaped |-> FALSE]

\* Lines 183-213, up to the return of the response object.
stream_logic(q, disposition) ==
    LET w == ResolveWindow(q.range, q.size)
    IN  IF NotSatisfiable(w.start, q.size)
        THEN [q EXCEPT !.pc = "done", !.status = 416, !.client_status = 416,
                       !.start = w.start, !.end = w.end,
                       !.content_range = ContentRangeUnsatisfied(q.size),
                       !.outcome = "not_satisfiable"]
        ELSE LET end == Min(w.end, q.size - 1)
             IN  [q EXCEPT !.pc = "response", !.status = 206,
                           !.start = w.start, !.end = end,
                           !.content_range = ContentRange(w.start, end, q.size),
                           !.content_length = StrInt(end - w.start + 1),
                           !.disposition = disposition]

\* Lines 215-223: the two routes differ in the disposition only.
Route(r, disposition, file_id, size, token, exp, range_header) ==
    /\ req[r].pc = "idle"
    /\ LET q == [req[r] EXCEPT !.file_id = file_id, !.size = size,
                               !.token = token, !.exp = exp,
                               !.range = range_header, !.at = now]
       IN  req' = [req EXCEPT ![r] =
                IF ~verify_token(file_id, token, exp, now)
                THEN [q EXCEPT !.pc = "done", !.status = 403,
                               !.client_status = 403,
                               !.outcome = "invalid_token"]
                ELSE stream_logic(q, disposition)]
    /\ UNCHANGED <<now, MULTI_TOKEN_ENABLED, ALIGNMENT, links, active_streams_count>>

stream_route(r, file_id, size, token, exp, range_header) ==
    Route(r, "inline", file_id, size, token, exp, range_header)

download_route(r, file_id, size, token, exp, range_header) ==
    Route(r, "attachment", file_id, size, token, exp, range_header)

(************************** link issuance **********************************)
\* Lines 54-63: the bot answers a media message with a watch link.
video_handler(m) ==
    /\ Cardinality(links) < MaxLinks
    /\ LET file_size == IF m.file_size # 0 THEN m.file_size ELSE DEFAULT_FILE_SIZE
       IN  links' = links \cup {generate_secure_link(m.file_id, file_size, "watch", now)}
    /\ UNCHANGED <<now, MULTI_TOKEN_ENABLED, ALIGNMENT, active_streams_count, req>>

\* Lines 115-181: the player page of a verified link carries two new links.
watch_video(file_id, size, token, exp) ==
    /\ Cardinality(links) + 2 <= MaxLinks
    /\ verify_token(file_id, token, exp, now)
    /\ links' = links \cup {generate_secure_link(file_id, size, "stream", now),
                            generate_secure_link(file_id, size, "download", now)}
    /\ UNCHANGED <<now, MULTI_TOKEN_ENABLED, ALIGNMENT, active_streams_count, req>>

\* time.time() moves on: by one tick, or by the lifetime of a link.
Tick(d) ==
    /\ d \in {1, TOKEN_EXPIRY * TicksPerSecond}
    /\ LET t == now + d
           period == TOKEN_EXPIRY * TicksPerSecond
       IN  /\ t \div period <= MaxEpochs + 1
           /\ t % period <= MaxSubTicks
           /\ now' = t
    /\ UNCHANGED <<MULTI_TOKEN_ENABLED, ALIGNMENT, links, active_streams_count, req>>

(*********************** the admission counter *****************************)
\* aenter with the limit tested by > for >=.
aenter_off_by_one(count) ==
    IF count > MAX_CONCURRENT_STREAMS
    THEN [granted |-> FALSE, count |-> count]
    ELSE [granted |-> TRUE, count |-> count + 1]

\* aenter with the increment made before the limit is tested.
aenter_counts_refused(count) ==
    IF count >= MAX_CONCURRENT_STREAMS
    THEN [granted |-> FALSE, count |-> count + 1]
    ELSE [granted |-> TRUE, count |-> count + 1]

\* Lines 77-83: the check and the increment under the lock.
aenter(count) ==
    IF count >= MAX_CONCURRENT_STREAMS
    THEN [granted |-> FALSE, count |-> count]
    ELSE [granted |-> TRUE, count |-> count + 1]

\* Lines 84-87: the decrement under the lock.
aexit(count) == count - 1

\* What can be raised inside gen(): an Exception of the upstream call
\* (RPCError, ValueError, OSError), the HTTPException of __aenter__, the
\* CancelledError of a cancelled await and the GeneratorExit of a closed
\* generator.  The first two are subclasses of Exception, the last two of
\* BaseException only.
ExceptionClasses == {"Exception", "HTTPException", "CancelledError", "GeneratorExit"}

IsException(exc) == exc \in {"Exception", "HTTPException"}

\* Line 110: `except Exception as e` around the loop of file_generator.
file_generator_catches(exc) == IsException(exc)

\* gen() with `except Exception:` in the place of its bare except.
gen_catches_Exception(exc) == IsException(exc)

\* Line 212: the bare `except:` of gen() catches every class.
gen_catches(exc) == exc \in ExceptionClasses

\* What is raised where gen() is suspended at pc when it ends with outcome:
\* a disconnect cancels the await of line 96 or closes gen() at the yield
\* of line 211; an upstream failure is an Exception raised by line 96.
Raised(pc, outcome) ==
    IF outcome = "aborted"
    THEN IF pc = "fetch" THEN "CancelledError" ELSE "GeneratorExit"
    ELSE IF outcome \in {"upstream_error", "offset_rejected"} THEN "Exception"
    ELSE IF outcome = "busy" THEN "HTTPException"
    ELSE "none"

\* An exception raised at pc leaves gen(): neither handler on its way up
\* catches it.  Only what line 96 raises passes through file_generator.
Escapes(pc, exc) ==
    /\ exc # "none"
    /\ ~(pc = "fetch" /\ file_generator_catches(exc))
    /\ ~gen_catches(exc)

\* gen() leaves `async with StreamManager()` (line 209) after a granted
\* __aenter__, on whatever path: __aexit__ runs, and the bare except of
\* line 212 swallows what is still propagating.  The locals of the two
\* generators go with their frames.
LeaveGen(q, outcome) ==
    [q EXCEPT !.pc = "done", !.released = @ + 1, !.outcome = outcome,
              !.escaped = Escapes(q.pc, Raised(q.pc, outcome)),
              !.offset = 0, !.bytes_served = 0, !.chunk_len = 0,
              !.brk = FALSE, !.pos = 0]

(************************* the response body *******************************)
\* Line 213: the server sends the 206 status line and the headers of the
\* StreamingResponse, and only then starts to iterate gen().
SendStart(r) ==
    /\ req[r].pc = "response"
    /\ req' = [req EXCEPT ![r].pc = "start", ![r].client_status = req[r].status]
    /\ UNCHANGED <<now, MULTI_TOKEN_ENABLED, ALIGNMENT, links, active_streams_count>>

\* Lines 207-210 and 90-96: the first step of gen().  A rejected __aenter__
\* raises HTTPException(503) inside gen(), where line 212 swallows it: the
\* body ends empty.  A granted one enters file_generator, which calls
\* stream_media(file_id, offset=start) and awaits its first chunk.
GenStart(r) ==
    /\ req[r].pc = "start"
    /\ LET a == aenter(active_streams_count)
       IN  /\ active_streams_count' = a.count
           /\ req' = [req EXCEPT ![r] =
                  IF a.granted
                  THEN [@ EXCEPT !.pc = "fetch", !.acquired = @ + 1,
                                 !.bytes_served = 0, !.offset = req[r].start,
                                 !.pos = req[r].start]
                  ELSE [@ EXCEPT !.pc = "done", !.rejected = TRUE,
                                 !.outcome = "busy",
                                 !.escaped = Escapes("start", Raised("start", "busy"))]]
    /\ UNCHANGED <<now, MULTI_TOKEN_ENABLED, ALIGNMENT, links>>

\* The upstream takes an offset only if it is a multiple of ALIGNMENT.
UpstreamAccepts(offset) == offset % ALIGNMENT = 0

\* The bytes of a resource are named by their offsets.
Bytes(from, n) == [i \in 1..n |-> from + i - 1]

total_bytes_to_serve(q) == q.end - q.start + 1

\* Yielded without the trim of the last chunk.
Yielded_untrimmed(q, chunk) ==
    [data |-> chunk,
     brk |-> q.bytes_served + Len(chunk) > q.end - q.start + 1]

\* Lines 97-104: what file_generator yields for a chunk, and whether it
\* breaks right after the yield (line 102).
Yielded(q, chunk) ==
    IF q.bytes_served + Len(chunk) > total_bytes_to_serve(q)
    THEN [data |-> PySliceTo(chunk, total_bytes_to_serve(q) - q.bytes_served),
          brk |-> TRUE]
    ELSE [data |-> chunk, brk |-> FALSE]

\* Line 96 delivers a chunk of n bytes (a short block is any n below the
\* block size), and lines 97-104 and 211 yield it to the server.
UpstreamChunk(r, n) ==
    /\ req[r].pc = "fetch"
    /\ UpstreamAccepts(req[r].offset)
    /\ n >= 1
    /\ req[r].pos + n <= FileLen(req[r].file_id)
    /\ LET q == req[r]
           y == Yielded(q, Bytes(q.pos, n))
       IN  req' = [req EXCEPT ![r] =
                [q EXCEPT !.pc = "yield", !.chunk_len = n, !.brk = y.brk,
                          !.pos = @ + n, !.supplied = @ + n,
                          !.sent = @ \o y.data]]
    /\ UNCHANGED <<now, MULTI_TOKEN_ENABLED, ALIGNMENT, links, active_streams_count>>

\* Served with a chunk shorter than a block taken for the end of the data.
Served_or_short(q) ==
    \/ q.bytes_served + q.chunk_len >= q.end - q.start + 1
    \/ q.chunk_len < MaxBlock

\* Lines 105-108: whether the loop breaks once bytes_served is advanced.
Served(q) == q.bytes_served + q.chunk_len >= total_bytes_to_serve(q)

\* The server asks for the next chunk: file_generator resumes after its
\* yield (line 102, or lines 105-108) and either breaks, which ends gen()
\* through __aexit__, or awaits the next upstream chunk.
Resume(r) ==
    /\ req[r].pc = "yield"
    /\ LET q == req[r]
       IN  IF q.brk \/ Served(q)
           THEN /\ req' = [req EXCEPT ![r] =
                       LeaveGen(q, "completed")]
                /\ active_streams_count' = aexit(active_streams_count)
           ELSE /\ req' = [req EXCEPT ![r] =
                       [q EXCEPT !.pc = "fetch",
                                 !.bytes_served = @ + q.chunk_len]]
                /\ UNCHANGED active_streams_count
    /\ UNCHANGED <<now, MULTI_TOKEN_ENABLED, ALIGNMENT, links>>

\* Line 96: the upstream has no more data; the loop ends.
UpstreamEnd(r) ==
    /\ req[r].pc = "fetch"
    /\ UpstreamAccepts(req[r].offset)
    /\ req[r].pos >= FileLen(req[r].file_id)
    /\ req' = [req EXCEPT ![r] = LeaveGen(@, "exhausted")]
    /\ active_streams_count' = aexit(active_streams_count)
    /\ UNCHANGED <<now, MULTI_TOKEN_ENABLED, ALIGNMENT, links>>

\* Line 96 raises because the upstream refuses the offset it was given;
\* lines 110-112 swallow the exception.
UpstreamReject(r) ==
    /\ req[r].pc = "fetch"
    /\ ~UpstreamAccepts(req[r].offset)
    /\ req' = [req EXCEPT ![r] = LeaveGen(@, "offset_rejected")]
    /\ active_streams_count' = aexit(active_streams_count)
    /\ UNCHANGED <<now, MULTI_TOKEN_ENABLED, ALIGNMENT, links>>

\* Line 96 raises for a reason of the upstream's own (network, flood wait);
\* lines 110-112 swallow the exception.
UpstreamError(r) ==
    /\ req[r].pc = "fetch"
    /\ req' = [req EXCEPT ![r] = LeaveGen(@, "upstream_error")]
    /\ active_streams_count' = aexit(active_streams_count)
    /\ UNCHANGED <<now, MULTI_TOKEN_ENABLED, ALIGNMENT, links>>

\* Disconnect with a cancelled body ending without __aexit__.
Disconnect_leak(r) ==
    /\ req[r].pc \in {"fetch", "yield"}
    /\ req' = [req EXCEPT ![r].pc = "done", ![r].outcome = "aborted"]
    /\ UNCHANGED <<now, MULTI_TOKEN_ENABLED, ALIGNMENT, links, active_streams_count>>

\* The client goes away while gen() is suspended at the fetch (CancelledError
\* at line 96) or at the yield (GeneratorExit at line 211).
Disconnect(r) ==
    /\ req[r].pc \in {"fetch", "yield"}
    /\ req' = [req EXCEPT ![r] = LeaveGen(@, "aborted")]
    /\ active_streams_count' = aexit(active_streams_count)
    /\ UNCHANGED <<now, MULTI_TOKEN_ENABLED, ALIGNMENT, links>>

\* The client goes away before gen() has run a step: none of its code runs.
DisconnectEarly(r) ==
    /\ req[r].pc \in {"response", "start"}
    /\ req' = [req EXCEPT ![r].pc = "done", ![r].outcome = "unstarted"]
    /\ UNCHANGED <<now, MULTI_TOKEN_ENABLED, ALIGNMENT, links, active_streams_count>>

\* A request that has not been made yet can arrive.
Arrives(r) == req[r].pc = "idle"

(*************************** specifications ********************************)
\* The clock of a running server is well past the epoch: at least one link
\* lifetime, so that an expiry of fewer digits is an expiry in the past.
Init ==
    /\ now = TOKEN_EXPIRY * TicksPerSecond
    /\ MULTI_TOKEN_ENABLED \in BOOLEAN
    /\ ALIGNMENT \in 1..MaxAlign
    /\ links = {}
    /\ active_streams_count = 0
    /\ req = [r \in Requests |-> IdleReq]

Body(r) ==
    \/ SendStart(r)
    \/ GenStart(r)
    \/ \E n \in 1..MaxBlock : UpstreamChunk(r, n)
    \/ Resume(r)
    \/ UpstreamEnd(r)
    \/ UpstreamReject(r)
    \/ UpstreamError(r)
    \/ Disconnect(r)
    \/ DisconnectEarly(r)

\* The gateway under concurrent load: clients follow the links they were
\* given, with or without a Range header.
LoadMedia == {m \in Media : m.file_id = <<"a", "1", "3">>}

LoadRanges == {NoRange, <<"bytes", "=", "0", "-", "0">>, <<"bytes", "=", "1", "-">>}

Next ==
    \/ \E m \in LoadMedia : video_handler(m)
    \/ \E r \in Requests : Arrives(r) /\ \E l \in links, h \in LoadRanges :
           \/ stream_route(r, l.file_id, l.size, l.token, l.exp, h)
           \/ download_route(r, l.file_id, l.size, l.token, l.exp, h)
    \/ \E r \in Requests : Body(r)

Spec == Init /\ [][Next]_vars

\* The same gateway with the progress its scheduling gives: the event loop
\* runs every ready step of the server (the response start, the first step
\* of gen(), the resumption of file_generator after a yield).  What the
\* upstream and the clients do, and when, is theirs to decide: the code sets
\* no timeout on the await of line 96.
SpecLive ==
    /\ Init /\ [][Next]_vars
    /\ \A r \in Requests :
           WF_vars(SendStart(r)) /\ WF_vars(GenStart(r)) /\ WF_vars(Resume(r))

(************************* what clients send *******************************)
\* The first request of the model: the specifications that study one
\* request's inputs give them to this one.
One == {r \in Requests : r = 1}

\* Every string of at most n symbols of the set A.
RECURSIVE Strings(_, _)
Strings(A, n) ==
    IF n = 0 THEN {<<>>}
    ELSE LET S == Strings(A, n - 1)
         IN  S \cup {Append(x, c) : x \in {y \in S : Len(y) = n - 1}, c \in A}

\* Range header values: every string of at most MaxHdrLen of these symbols
\* ("bytes" and "x" stand for the unit name and for any other word).
RangeSymbols == {"bytes", "=", "-", "0", "2", "x"}

RangeHeaders == Strings(RangeSymbols, MaxHdrLen)

\* The size query parameter is any int.
SizeInputs == (0 - 1)..MaxSize

\* The expiries a client may present with a link l: its own, the next
\* second, and every number read off the tail of file_id + expiry.
ShiftedExps(l) ==
    LET p == l.file_id \o Str(l.exp)
    IN  {ParseInt(SubSeq(p, k, Len(p))) :
            k \in {j \in 1..Len(p) : IsNumeric(SubSeq(p, j, Len(p)))}}

ExpInputs == UNION {{l.exp, l.exp + 1} \cup ShiftedExps(l) : l \in links}

\* Range header values of a player seeking in a resource of 1000 bytes: an
\* open range, a range past the end, a suffix range, a list of ranges, and
\* a value with a stray "-".
Bytes_eq == <<"bytes", "=">>

RangeCases ==
    { [size |-> 1000, header |-> h] :
        h \in { NoRange,
                Bytes_eq \o <<"5", "0", "0", "-">>,
                Bytes_eq \o <<"-", "0", "-">>,
                Bytes_eq \o <<"1", "0", "0", "0", "-">>,
                Bytes_eq \o <<"1", "0", "0", "1", "-", "2", "0", "0", "0">>,
                Bytes_eq \o <<"-", "5", "0", "0">>,
                Bytes_eq \o <<"2", "0", "0", "-", "3", "0", "0", ",",
                              "5", "0", "0", "-", "6", "0", "0">>,
                Bytes_eq \o <<"0", "-", "1", ",", "5", "-", "9">> } }

(********************* the other specifications ****************************)
\* Links and the clock: links are minted, time passes, and clients present
\* the tokens they hold with any file_id and any of ExpInputs.
TokenMedia == {m \in Media : m.file_id = <<"a", "1">>}

NextToken ==
    \/ \E d \in {1, TOKEN_EXPIRY * TicksPerSecond} : Tick(d)
    \/ \E m \in TokenMedia : video_handler(m)
    \/ \E l \in links, f \in FileIds, e \in ExpInputs :
           watch_video(f, l.size, l.token, e)
    \/ \E r \in One : Arrives(r) /\ \E l \in links, f \in FileIds, e \in ExpInputs :
           \/ stream_route(r, f, l.size, l.token, e, NoRange)
           \/ download_route(r, f, l.size, l.token, e, NoRange)

SpecToken == Init /\ [][NextToken]_vars

\* The range resolver: one request with any Range header and any size.
RangeMedia == {m \in Media : m.file_id = <<"a">>}

NextRange ==
    \/ \E m \in RangeMedia : video_handler(m)
    \/ \E r \in One : Arrives(r) /\ \E l \in links, z \in SizeInputs, h \in RangeHeaders :
           \/ stream_route(r, l.file_id, z, l.token, l.exp, h)
           \/ download_route(r, l.file_id, z, l.token, l.exp, h)
    \/ \E r \in One : Arrives(r) /\ \E l \in links, c \in RangeCases :
           \/ stream_route(r, l.file_id, c.size, l.token, l.exp, c.header)
           \/ download_route(r, l.file_id, c.size, l.token, l.exp, c.header)

SpecRange == Init /\ [][NextRange]_vars

\* One stream from end to end: any window over a resource, a size that is
\* the resource's or one more, any chunking by the upstream.
StreamMedia == {m \in Media : m.file_id = <<"a">>}

WindowDigits == {Str(i) : i \in 0..MaxSize}

StreamRanges ==
    {NoRange} \cup {<<"bytes", "=">> \o a \o <<"-">> \o b :
                       a \in WindowDigits, b \in WindowDigits \cup {<<>>}}

NextStream ==
    \/ \E m \in StreamMedia : video_handler(m)
    \/ \E r \in One : Arrives(r) /\ \E l \in links, d \in {0, 1}, h \in StreamRanges :
           \/ stream_route(r, l.file_id, l.size + d, l.token, l.exp, h)
           \/ download_route(r, l.file_id, l.size + d, l.token, l.exp, h)
    \/ \E r \in One : Body(r)

SpecStream == Init /\ [][NextStream]_vars

\* The gateway's three refusals side by side: concurrent requests that
\* present a link as issued or under another file_id (403), with no Range
\* header or with a start at the size (416), and stream until refused a
\* slot (503) or done.
GateFileIds(l) == {l.file_id, <<"a">>}

GateRanges ==
    {NoRange, Bytes_eq \o <<"1", "-">>, Bytes_eq \o Str(DEFAULT_FILE_SIZE) \o <<"-">>}

NextGate ==
    \/ \E m \in LoadMedia : video_handler(m)
    \/ \E r \in Requests : Arrives(r) /\ \E l \in links, h \in GateRanges :
           \E f \in GateFileIds(l) : stream_route(r, f, l.size, l.token, l.exp, h)
    \/ \E r \in Requests : Body(r)

SpecGate == Init /\ [][NextGate]_vars

(******************************* claims ************************************)
\* The requests that hold an admission slot: granted and not yet released.
Inside == {r \in Requests : req[r].acquired > req[r].released}

\* C1: under any interleaving of requests the counter stays within
\* 0..MAX_CONCURRENT_STREAMS, no more than MAX_CONCURRENT_STREAMS requests are
\* inside StreamManager at once, and the counter is exactly the number of
\* requests inside (no increment or decrement is lost).
C1_CounterBounded ==
    /\ active_streams_count >= 0
    /\ active_streams_count <= MAX_CONCURRENT_STREAMS
    /\ Cardinality(Inside) <= MAX_CONCURRENT_STREAMS
    /\ active_streams_count = Cardinality(Inside)

\* The counter is at its limit, one request streams and another was refused.
C1_Witness ==
    /\ active_streams_count = MAX_CONCURRENT_STREAMS
    /\ \E r1, r2 \in Requests :
           /\ r1 # r2
           /\ req[r1].pc \in {"fetch", "yield"}
           /\ req[r2].rejected

GrantedOutcomes ==
    {"completed", "exhausted", "upstream_error", "offset_rejected", "aborted"}

\* C2: a granted acquisition is released exactly once on every exit path of
\* gen() (completion, exhaustion, upstream exception, client disconnect), a
\* rejected one is never released, and when every started request has ended
\* the counter is 0.
C2_ReleasedExactlyOnce ==
    /\ \A r \in Requests :
           LET q == req[r]
           IN  /\ q.released <= q.acquired
               /\ q.acquired <= 1
               /\ q.pc = "done" => q.released = q.acquired
               /\ q.outcome \in GrantedOutcomes =>
                      q.acquired = 1 /\ q.released = 1
               /\ q.rejected => q.acquired = 0 /\ q.released = 0
    /\ (\A r \in Requests : req[r].pc \in {"idle", "done"}) =>
           active_streams_count = 0

\* Every request has ended: one was refused a slot and one was aborted by
\* its client while it held one.
C2_Witness ==
    /\ \A r \in Requests : req[r].pc = "done"
    /\ \E r \in Requests : req[r].rejected
    /\ \E r \in Requests : req[r].outcome = "aborted" /\ req[r].released = 1

\* C3: a request that finds the counter at MAX_CONCURRENT_STREAMS is answered
\* 503 and is never sent a 206 status line.
C3_BusyIs503 ==
    \A r \in Requests : req[r].rejected => req[r].client_status = 503

\* C4: a request handled when the clock is past exp is answered 403 and
\* reaches neither the window, nor admission, nor the body; a request whose
\* token is the digest of its file_id and exp, handled no later than exp, is
\* not answered 403.
C4_ExpiredIs403 ==
    \A r \in Requests :
        LET q == req[r]
        IN  q.pc # "idle" =>
              /\ q.at > q.exp * TicksPerSecond =>
                     /\ q.status = 403 /\ q.client_status = 403
                     /\ q.pc = "done" /\ q.outcome = "invalid_token"
                     /\ q.content_range = <<>> /\ q.acquired = 0
                     /\ q.sent = <<>>
              /\ (q.at <= q.exp * TicksPerSecond
                    /\ q.token = Hmac(q.file_id \o Str(q.exp))) =>
                     q.status # 403

\* A request presents an issued link, unaltered, half a second too late.
C4_Witness ==
    \E r \in Requests, l \in links :
        /\ req[r].pc = "done" /\ req[r].status = 403
        /\ req[r].file_id = l.file_id /\ req[r].token = l.token
        /\ req[r].exp = l.exp
        /\ req[r].at = l.exp * TicksPerSecond + 1

\* C5: a token presented with a file_id or an expiry other than those of the
\* link it was issued in is refused.
C5_AlteredLinkRefused ==
    \A r \in Requests : \A l \in links :
        (/\ req[r].pc # "idle"
         /\ req[r].token = l.token
         /\ <<req[r].file_id, req[r].exp>> # <<l.file_id, l.exp>>) =>
            req[r].status = 403

\* The window of a request lies inside the resource the upstream holds.
WindowInResource(q) ==
    /\ q.size = FileLen(q.file_id)
    /\ 0 <= q.start /\ q.start <= q.end /\ q.end <= q.size - 1

\* C6: for a window inside the resource, a body that ended without a client
\* disconnect and without a failure of the upstream's own is exactly the
\* bytes start..end, in order.
C6_BodyIsWindow ==
    \A r \in Requests :
        LET q == req[r]
        IN  (/\ q.pc = "done" /\ q.status = 206
             /\ WindowInResource(q)
             /\ q.outcome \in {"completed", "exhausted", "offset_rejected"}) =>
                q.sent = Bytes(q.start, q.end - q.start + 1)

\* C7: for a window with start <= end the bytes yielded so far never exceed
\* end-start+1, and once the upstream has supplied that many the bytes
\* yielded are exactly end-start+1, the Content-Length of the response.
C7_LengthWithinWindow ==
    \A r \in Requests :
        LET q == req[r]
            total == q.end - q.start + 1
        IN  (q.status = 206 /\ q.start <= q.end) =>
              /\ Len(q.sent) <= total
              /\ q.supplied >= total =>
                     /\ Len(q.sent) = total
                     /\ q.content_length = StrInt(Len(q.sent))

\* A stream completed whose last chunk ran past the window and was trimmed.
C7_Witness ==
    \E r \in Requests :
        /\ req[r].outcome = "completed"
        /\ req[r].start <= req[r].end
        /\ req[r].supplied > req[r].end - req[r].start + 1
        /\ Len(req[r].sent) = req[r].end - req[r].start + 1

\* C8: a verified request whose resolved start is not below size is answered
\* 416 with Content-Range: bytes */<size> and no body, never 206.
C8_Unsatisfiable416 ==
    \A r \in Requests :
        LET q == req[r]
        IN  (q.pc # "idle" /\ q.status # 403 /\ q.start >= q.size) =>
              /\ q.status = 416 /\ q.client_status = 416
              /\ q.content_range = <<"bytes", " ", "*", "/">> \o StrInt(q.size)
              /\ q.pc = "done" /\ q.sent = <<>>

\* A Range header whose start is the size itself was answered 416.
C8_Witness ==
    \E r \in Requests :
        /\ req[r].status = 416
        /\ req[r].range # NoRange
        /\ req[r].size > 0
        /\ req[r].start = req[r].size

\* C9: whenever the answer is not 416 (a 206), the window used satisfies
\* 0 <= start <= end <= size-1 and Content-Length is end-start+1 >= 1.
C9_WindowValid ==
    \A r \in Requests :
        LET q == req[r]
        IN  q.status = 206 =>
              /\ 0 <= q.start /\ q.start <= q.end /\ q.end <= q.size - 1
              /\ q.content_length = StrInt(q.end - q.start + 1)
              /\ q.end - q.start + 1 >= 1

\* A Range header is unparseable: no single "=", a unit other than bytes, or
\* a start or an end that is given and is not a number.
Unparseable(h) ==
    /\ h # NoRange
    /\ LET kv == Split(h, "=")
       IN  \/ Len(kv) # 2
           \/ kv[1] # <<"bytes">>
           \/ LET parts == Split(kv[2], "-")
              IN  \/ parts[1] # <<>> /\ ~IsNumeric(parts[1])
                  \/ Len(parts) > 1 /\ parts[2] # <<>> /\ ~IsNumeric(parts[2])

\* C10: with no Range header, or an unparseable one, the window served for
\* a resource of size >= 1 is [0, size-1]: nothing of the header survives.
C10_UnparseableIsWhole ==
    \A r \in Requests :
        LET q == req[r]
        IN  (/\ q.pc # "idle" /\ q.status # 403 /\ q.size >= 1
             /\ (q.range = NoRange \/ Unparseable(q.range))) =>
                q.status = 206 /\ q.start = 0 /\ q.end = q.size - 1

\* C11: with size 1000, no Range header gives the window [0,999], bytes=500-
\* gives [500,999], and bytes=-0- or any start >= 1000 is answered 416 with
\* Content-Range: bytes */1000.
C11_ResolverExamples ==
    \A r \in Requests :
        LET q == req[r]
            is416 == /\ q.status = 416
                     /\ q.content_range =
                            <<"bytes", " ", "*", "/", "1", "0", "0", "0">>
        IN  (q.pc # "idle" /\ q.status # 403 /\ q.size = 1000) =>
              /\ q.range = NoRange =>
                     q.status = 206 /\ q.start = 0 /\ q.end = 999
              /\ q.range = Bytes_eq \o <<"5", "0", "0", "-">> =>
                     q.status = 206 /\ q.start = 500 /\ q.end = 999
              /\ q.range = Bytes_eq \o <<"-", "0", "-">> => is416
              /\ q.start >= 1000 => is416

\* A Range header of the suffix form bytes=-N: an empty start and a number.
IsSuffix(h) ==
    /\ h # NoRange
    /\ LET kv == Split(h, "=")
       IN  /\ Len(kv) = 2
           /\ kv[1] = <<"bytes">>
           /\ LET parts == Split(kv[2], "-")
              IN  Len(parts) = 2 /\ parts[1] = <<>> /\ IsNumeric(parts[2])

SuffixLength(h) == ParseInt(Split(Split(h, "=")[2], "-")[2])

\* C12: a suffix header bytes=-N (N >= 1) is served as the last N bytes
\* [size-N, size-1], or as the whole resource [0, size-1], or is rejected;
\* it is never served as some other window such as [0, N].
C12_SuffixNotMisparsed ==
    \A r \in Requests :
        LET q == req[r]
            N == SuffixLength(q.range)
        IN  (/\ q.pc # "idle" /\ q.status # 403 /\ q.size >= 1
             /\ IsSuffix(q.range) /\ N >= 1) =>
               \/ q.status = 416
               \/ /\ q.status = 206
                  /\ q.end = q.size - 1
                  /\ q.start \in {0, IF N < q.size THEN q.size - N ELSE 0}

\* A Range header that lists several ranges, the first of them a-b.
IsMultiRange(h) ==
    /\ h # NoRange
    /\ LET kv == Split(h, "=")
       IN  /\ Len(kv) = 2
           /\ kv[1] = <<"bytes">>
           /\ LET ranges == Split(kv[2], ",")
              IN  /\ Len(ranges) >= 2
                  /\ LET first == Split(ranges[1], "-")
                     IN  /\ Len(first) = 2
                         /\ IsNumeric(first[1]) /\ IsNumeric(first[2])

FirstRange(h) ==
    LET first == Split(Split(Split(h, "=")[2], ",")[1], "-")
    IN  [a |-> ParseInt(first[1]), b |-> ParseInt(first[2])]

\* C13: for a multi-range header bytes=a-b,c-d,... with a < size the window
\* is the first range alone, [a, min(b, size-1)].
C13_FirstRangeOnly ==
    \A r \in Requests :
        LET q == req[r]
            f == FirstRange(q.range)
        IN  (/\ q.pc # "idle" /\ q.status # 403
             /\ IsMultiRange(q.range) /\ f.a < q.size) =>
                /\ q.status = 206
                /\ q.start = f.a
                /\ q.end = Min(f.b, q.size - 1)

AbortOutcomes == {"aborted", "upstream_error", "offset_rejected"}

\* C14: when the client disconnects or the upstream fetch raises while an
\* admitted stream is streaming, the request ends at once: its slot is
\* released, no exception leaves gen(), and afterwards nothing more is
\* fetched or sent for it and its slot is not released again.
C14_AbortStopsStream ==
    [][\A r \in Requests :
          /\ (/\ req[r].pc \in {"fetch", "yield"}
              /\ req'[r].outcome \in AbortOutcomes) =>
                 /\ req'[r].pc = "done"
                 /\ req'[r].released = req[r].released + 1
                 /\ active_streams_count' = active_streams_count - 1
                 /\ ~req'[r].escaped
          /\ req[r].outcome \in AbortOutcomes =>
                 /\ req'[r].pc = "done"
                 /\ req'[r].supplied = req[r].supplied
                 /\ req'[r].sent = req[r].sent
                 /\ req'[r].released = req[r].released]_vars

\* One stream was cut by its client after a chunk was sent, another by an
\* upstream failure, and both slots are free again.
C14_Witness ==
    /\ active_streams_count = 0
    /\ \E r1, r2 \in Requests :
           /\ req[r1].outcome = "aborted" /\ req[r1].supplied >= 1
           /\ req[r1].released = 1
           /\ req[r2].outcome = "upstream_error" /\ req[r2].released = 1

\* C15: an upstream fetch has a bounded wait: a request waiting for a chunk
\* does not wait forever, it goes on or is aborted and its slot released.
C15_FetchWaitBounded ==
    \A r \in Requests : (req[r].pc = "fetch") ~> (req[r].pc # "fetch")

\* The links that notification events issued for a resource.
Notified(file_id) == {n \in links : n.endpoint = "watch" /\ n.file_id = file_id}

\* C16: tokens are minted by notification events only (the "watch" links of
\* video_handler), so no link for a notified resource ever carries an expiry
\* later than that of a link a notification issued for it.
C16_NoLaterExpiry ==
    \A l \in links :
        Notified(l.file_id) # {} =>
            \E n \in Notified(l.file_id) : l.exp <= n.exp

\* C17: the size parameter is not covered by the token: whether a request
\* is accepted depends on file_id, token, exp and the clock alone, and the
\* size presented is used as it is: as the total of Content-Range (206 and
\* 416), as the bound of the window and of Content-Length, and as the
\* default end size-1.
C17_SizeTrusted ==
    \A r \in Requests :
        LET q == req[r]
        IN  q.pc # "idle" =>
              /\ q.status # 403 <=>
                     /\ q.at <= q.exp * TicksPerSecond
                     /\ q.token = Hmac(q.file_id \o Str(q.exp))
              /\ q.status = 206 =>
                     /\ q.content_range =
                            <<"bytes", " ">> \o StrInt(q.start) \o <<"-">>
                                \o StrInt(q.end) \o <<"/">> \o StrInt(q.size)
                     /\ q.end <= q.size - 1
                     /\ q.content_length = StrInt(q.end - q.start + 1)
                     /\ q.range = NoRange => q.start = 0 /\ q.end = q.size - 1
              /\ q.status = 416 =>
                     q.content_range = <<"bytes", " ", "*", "/">> \o StrInt(q.size)

\* A request presents the token of a link with a size that is not the
\* link's and a window that ends before it, and is framed with that size.
C17_Witness ==
    \E r \in Requests, l \in links :
        /\ req[r].status = 206
        /\ req[r].token = l.token /\ req[r].file_id = l.file_id
        /\ req[r].size = 1000 /\ l.size # 1000
        /\ req[r].end < req[r].size - 1
        /\ LET cr == req[r].content_range
           IN  /\ Len(cr) >= 5
               /\ SubSeq(cr, Len(cr) - 4, Len(cr)) = <<"/", "1", "0", "0", "0">>

\* C18: every offset handed to the upstream is a multiple of ALIGNMENT: for
\* a window [start, end] the fetch is issued at start - (start mod ALIGNMENT).
C18_OffsetsAligned ==
    \A r \in Requests :
        LET q == req[r]
        IN  q.pc \in {"fetch", "yield"} =>
              /\ q.offset % ALIGNMENT = 0
              /\ q.offset = q.start - (q.start % ALIGNMENT)

\* C19: a short read does not end the stream: after a chunk that leaves
\* fewer than end-start+1 bytes yielded, file_generator goes back to the
\* upstream for the next one at the advanced position; and a stream that
\* ended without an error or an abort has yielded end-start+1 bytes
\* (exactly that many when start <= end) or has exhausted the upstream.
C19_ShortReadContinues ==
    [][\A r \in Requests :
          LET q == req[r]
              total == q.end - q.start + 1
          IN  /\ (/\ q.pc = "yield" /\ req'[r].pc # "yield"
                  /\ q.bytes_served + q.chunk_len < total
                  /\ req'[r].outcome # "aborted") =>
                     /\ req'[r].pc = "fetch"
                     /\ req'[r].bytes_served = q.bytes_served + q.chunk_len
                     /\ req'[r].pos = q.start + req'[r].bytes_served
                     /\ req'[r].sent = q.sent
              /\ (q.pc \in {"fetch", "yield"} /\ req'[r].pc = "done") =>
                     \/ req'[r].outcome \in AbortOutcomes
                     \/ /\ req'[r].outcome = "completed"
                        /\ Len(req'[r].sent) >= total
                        /\ q.start <= q.end => Len(req'[r].sent) = total
                     \/ /\ req'[r].outcome = "exhausted"
                        /\ q.pos >= FileLen(q.file_id)]_vars

\* After a chunk shorter than a block, with the window not yet filled, the
\* request is waiting for the next chunk.
C19_Witness ==
    \E r \in Requests :
        /\ req[r].pc = "fetch"
        /\ req[r].chunk_len >= 1 /\ req[r].chunk_len < MaxBlock
        /\ req[r].bytes_served = req[r].chunk_len
        /\ req[r].bytes_served < req[r].end - req[r].start + 1
        /\ req[r].pos < FileLen(req[r].file_id)

\* The requests with an upstream stream open: waiting for a chunk, or
\* handing one to the server.
Fetching == {r \in Requests : req[r].pc \in {"fetch", "yield"}}

\* A request that was refused: 403, 416, or no slot.
Refused(q) == q.status \in {403, 416} \/ q.rejected

\* C20: an upstream fetch is issued only for a request that passed token
\* verification, has a window with start < size and holds an admission
\* slot, so the requests fetching never outnumber active_streams_count; a
\* request refused with 403, with 416 or for lack of a slot never fetches
\* and leaves active_streams_count as it was.
C20_FetchOnlyWhenAdmitted ==
    /\ [](/\ \A r \in Fetching :
                LET q == req[r]
                IN  /\ q.status = 206
                    /\ q.at <= q.exp * TicksPerSecond
                    /\ q.token = Hmac(q.file_id \o Str(q.exp))
                    /\ q.start < q.size
                    /\ q.acquired = 1 /\ q.released = 0
          /\ Cardinality(Fetching) <= active_streams_count
          /\ \A r \in Requests :
                Refused(req[r]) =>
                    /\ req[r].pc = "done" /\ req[r].acquired = 0
                    /\ req[r].supplied = 0 /\ req[r].sent = <<>>)
    /\ [][\A r \in Requests :
             (~Refused(req[r]) /\ Refused(req'[r])) =>
                 /\ active_streams_count' = active_streams_count
                 /\ req'[r].pc # "fetch"]_vars

\* While one request streams, another was refused for its token.
C20_Witness ==
    \E r1, r2 \in Requests :
        /\ req[r1].pc = "fetch" /\ active_streams_count = 1
        /\ req[r2].status = 403 /\ req[r2].pc = "done"

====
